---- MODULE Spec2Model ----
(***************************************************************************)
(* Model of the SmartPen handwriting-scoring backend:                      *)
(*   backend/app/api/scoring.py          comprehensive_score and helpers   *)
(*   backend/app/scoring/stroke_order.py validate_stroke_order             *)
(*   backend/app/algorithms/dtw.py       calculate_dtw_distance            *)
(*   backend/app/scoring/normalizer.py   normalize_score                   *)
(*   backend/app/scoring/posture_scorer.py PostureScorer                   *)
(*                                                                         *)
(* Numbers.  Python floats are modelled in fixed point:                    *)
(*   coordinates            tenths            (c stands for c/10)          *)
(*   distances, similarity  1/10000           (Scale)                      *)
(*   posture metrics        tenths of a degree or centimetre               *)
(*   posture score          thousandths of a point                         *)
(*   weighted total         1/10000 of a point                             *)
(*   rounded scores         tenths of a point (round(x, 1))                *)
(* Strings of the source that are not ASCII are written in pinyin; each    *)
(* definition names the line of the source that holds the original.        *)
(***************************************************************************)
EXTENDS Integers, Sequences, FiniteSets, TLC

VARIABLES
    pc,              \* position of the handler (or of the direct validator call)
    request,         \* ComprehensiveScoreRequest: character, user_strokes, posture_data
    lookup,          \* outcome of _loader.load_character: "none", "found", "not_found", "network_error"
    reference_data,  \* template strokes (medians) of the loaded character
    order_result,    \* <<>> or <<StrokeOrderResult>>
    stroke_scores,   \* _score_handwriting: similarities appended so far
    stroke_analyses, \* _score_handwriting: StrokeAnalysis appended so far
    dtw_calls,       \* number of calculate_dtw_distance calls made for this request
    order_calls,     \* number of validate_stroke_order calls made for this request
    posture_calls,   \* number of score_posture calls made for this request
    response,        \* <<>> or <<[status, detail, body]>>
    extracted,       \* score_from_photo: <<>> or <<strokes the extractor returned>>
    unit,            \* <<>> or <<[fn, args, result]>>: a library function called on its own
    singleton        \* InkSightModel: the class, its one object, and the threads constructing it

vars == <<pc, request, lookup, reference_data, order_result, stroke_scores,
          stroke_analyses, dtw_calls, order_calls, posture_calls, response,
          extracted, unit, singleton>>

----------------------------------------------------------------------------
(* Bounds and input pools *)

\* largest number of strokes in a template and in a request
MaxStrokes == 2

\* fixed-point unit of distances and similarities
Scale == 10000

\* fixed-point unit of coordinates: 10 stands for 1.0
CoordScale == 10

\* strokes the inputs are built from (coordinates in tenths)
StrokeH  == << <<1, 1>>, <<9, 1>> >>   \* horizontal
StrokeH2 == << <<1, 2>>, <<9, 2>> >>   \* the same horizontal, drawn 0.1 lower
StrokeV  == << <<1, 1>>, <<1, 9>> >>   \* vertical
StrokeP  == << <<5, 5>> >>             \* a single point
StrokeE  == << >>                      \* an empty stroke (the request model allows it)

TemplateStrokePool == {StrokeH, StrokeH2, StrokeV, StrokeP}
UserStrokePool     == TemplateStrokePool \cup {StrokeE}

RECURSIVE SeqsUpTo(_, _)
SeqsUpTo(S, n) ==
    IF n = 0 THEN {<< >>}
    ELSE LET shorter == SeqsUpTo(S, n - 1)
         IN  shorter \cup {Append(s, x) : s \in {t \in shorter : Len(t) = n - 1}, x \in S}

\* CharacterData.medians has min_length=1, every median has min_length=1 points
Templates == SeqsUpTo(TemplateStrokePool, MaxStrokes) \ {<< >>}
UserStrokeLists == SeqsUpTo(UserStrokePool, MaxStrokes)

\* request.character as the sequence of its characters
Characters == {<< >>, <<"yong">>, <<"yong", "zi">>}

\* posture samples, in tenths: spine_angle, eye_screen_distance, head_tilt
PostureGood     == [spine_angle |-> 50,  eye_screen_distance |-> 500, head_tilt |-> 50]
PostureCritical == [spine_angle |-> 250, eye_screen_distance |-> 400, head_tilt |-> 50]
PostureRamp     == [spine_angle |-> 200, eye_screen_distance |-> 500, head_tilt |-> 184]
PostureSamples  == {PostureGood, PostureCritical, PostureRamp}

\* Optional[T]: <<>> is None, <<v>> is a value
Optional(S) == {<< >>} \cup {<<v>> : v \in S}

Requests ==
    [character : Characters, user_strokes : UserStrokeLists,
     posture_data : Optional(PostureSamples)]

----------------------------------------------------------------------------
(* Arithmetic helpers *)

Abs(x) == IF x < 0 THEN -x ELSE x
Min(a, b) == IF a <= b THEN a ELSE b
Max(a, b) == IF a >= b THEN a ELSE b

RECURSIVE SumSeq(_)
SumSeq(s) == IF s = << >> THEN 0 ELSE Head(s) + SumSeq(Tail(s))

\* Python round(): the nearest multiple, a tie goes to the even one
RoundHalfEven(num, den) ==
    LET q == num \div den
        r == num % den
    IN  IF 2 * r < den THEN q
        ELSE IF 2 * r > den THEN q + 1
        ELSE IF q % 2 = 0 THEN q ELSE q + 1

\* np.exp(-x) for x >= 0 in fixed point: e^-x = (e^-1)^floor(x) * e^-frac(x).
\* The fractional part is read from a table of e^(-k/100), k = 0..100, and
\* interpolated linearly between two entries, which keeps the function
\* non-increasing as np.exp is (a truncated series does not).
ExpInv1 == 3679
ExpKnots == 100
ExpTable == <<
    10000, 9900, 9802, 9704, 9608, 9512, 9418, 9324, 9231, 9139,
    9048, 8958, 8869, 8781, 8694, 8607, 8521, 8437, 8353, 8270,
    8187, 8106, 8025, 7945, 7866, 7788, 7711, 7634, 7558, 7483,
    7408, 7334, 7261, 7189, 7118, 7047, 6977, 6907, 6839, 6771,
    6703, 6637, 6570, 6505, 6440, 6376, 6313, 6250, 6188, 6126,
    6065, 6005, 5945, 5886, 5827, 5769, 5712, 5655, 5599, 5543,
    5488, 5434, 5379, 5326, 5273, 5220, 5169, 5117, 5066, 5016,
    4966, 4916, 4868, 4819, 4771, 4724, 4677, 4630, 4584, 4538,
    4493, 4449, 4404, 4360, 4317, 4274, 4232, 4190, 4148, 4107,
    4066, 4025, 3985, 3946, 3906, 3867, 3829, 3791, 3753, 3716,
    3679 >>

\* e^-(r / Scale) for 0 <= r < Scale
ExpFrac(r) ==
    LET step == Scale \div ExpKnots
        k == r \div step
    IN  ExpTable[k + 1] - ((ExpTable[k + 1] - ExpTable[k + 2]) * (r % step)) \div step

RECURSIVE PowInv1(_)
PowInv1(q) == IF q = 0 THEN Scale ELSE (PowInv1(q - 1) * ExpInv1) \div Scale

ExpNeg(x) ==
    LET q == x \div Scale
        r == x % Scale
    IN  IF q > 9 THEN 0 ELSE (PowInv1(q) * ExpFrac(r)) \div Scale

----------------------------------------------------------------------------
(* backend/app/algorithms/dtw.py *)

\* a local cost that compares x with y
CityBlockMixedAxes(p, q) == Abs(p[1] - q[2]) + Abs(p[2] - q[1])

\* a local cost that looks at x only
CityBlockXOnly(p, q) == Abs(p[1] - q[1])

\* dist_method='cityblock'
CityBlock(p, q) == Abs(p[1] - q[1]) + Abs(p[2] - q[2])

\* dtw(..., step_pattern='symmetric2'): cumulative cost of the best warping
\* path ending at (i, j); the diagonal step counts the local cost twice
RECURSIVE CumulativeCost(_, _, _, _)
CumulativeCost(seq1, seq2, i, j) ==
    LET c == CityBlock(seq1[i], seq2[j])
    IN  IF i = 1 /\ j = 1 THEN c
        ELSE IF i = 1 THEN CumulativeCost(seq1, seq2, 1, j - 1) + c
        ELSE IF j = 1 THEN CumulativeCost(seq1, seq2, i - 1, 1) + c
        ELSE Min(CumulativeCost(seq1, seq2, i - 1, j - 1) + 2 * c,
                 Min(CumulativeCost(seq1, seq2, i - 1, j) + c,
                     CumulativeCost(seq1, seq2, i, j - 1) + c))

\* raises ValueError when either sequence is empty
DtwRaises(seq1, seq2) == seq1 = << >> \/ seq2 = << >>

\* the cumulative cost over len(seq1) alone
calculate_dtw_distance_NormalizedByFirst(seq1, seq2) ==
    (CumulativeCost(seq1, seq2, Len(seq1), Len(seq2)) * (Scale \div CoordScale))
        \div Len(seq1)

\* alignment.normalizedDistance: the cumulative cost over len(seq1) + len(seq2)
calculate_dtw_distance(seq1, seq2) ==
    (CumulativeCost(seq1, seq2, Len(seq1), Len(seq2)) * (Scale \div CoordScale))
        \div (Len(seq1) + Len(seq2))

\* similarity of compare_strokes(template, user_stroke, max_distance=1.0)
compare_strokes(template, user_stroke) ==
    Max(0, Min(Scale, ExpNeg(calculate_dtw_distance(template, user_stroke))))

----------------------------------------------------------------------------
(* backend/app/scoring/normalizer.py *)

\* a score that grows with the distance: 100 * (1 - exp(-distance / max_distance))
normalize_score_Dissimilarity(distance, max_distance) ==
    LET d == Max(0, distance)
    IN  Max(0, Min(Scale, Scale - ExpNeg((d * Scale) \div max_distance)))

\* normalize_score(distance, max_distance), in hundredths of a point
normalize_score(distance, max_distance) ==
    LET d == Max(0, distance)
    IN  Max(0, Min(Scale, ExpNeg((d * Scale) \div max_distance)))

----------------------------------------------------------------------------
(* backend/app/scoring/stroke_order.py *)

\* the middle points stroke[1:-1] deviate from the start-end line by more
\* than 0.2 of dx + dy (the comparison is squared to stay in the integers)
IsCurved(stroke) ==
    LET s  == stroke[1]
        e  == stroke[Len(stroke)]
        dx == Abs(e[1] - s[1])
        dy == Abs(e[2] - s[2])
        total == dx + dy
        den2  == (e[2] - s[2]) * (e[2] - s[2]) + (e[1] - s[1]) * (e[1] - s[1])
        Numer(p) == Abs((e[2] - s[2]) * p[1] - (e[1] - s[1]) * p[2]
                        + e[1] * s[2] - e[2] * s[1])
    IN  /\ Len(stroke) > 2
        /\ dx > 0
        /\ \E k \in 2..(Len(stroke) - 1) :
              25 * Numer(stroke[k]) * Numer(stroke[k]) > total * total * den2

\* a classification that tells the two diagonals apart for strokes drawn
\* towards the lower right only
detect_stroke_direction_ForwardOnly(stroke) ==
    IF Len(stroke) < 2 THEN "unknown"
    ELSE LET s  == stroke[1]
             e  == stroke[Len(stroke)]
             dx == Abs(e[1] - s[1])
             dy == Abs(e[2] - s[2])
             total == dx + dy
         IN  IF total < 1 THEN "unknown"
             ELSE IF IsCurved(stroke) THEN "unknown"
             ELSE IF 10 * dx >= 7 * total THEN "horizontal"
             ELSE IF 10 * dy >= 7 * total THEN "vertical"
             ELSE IF 10 * dx > 3 * total /\ 10 * dy > 3 * total
                  THEN IF e[1] > s[1] /\ e[2] > s[2]
                       THEN "diagonal_down_right"
                       ELSE "diagonal_down_left"
             ELSE "unknown"

\* lines 33-99
detect_stroke_direction(stroke) ==
    IF Len(stroke) < 2 THEN "unknown"
    ELSE LET s  == stroke[1]
             e  == stroke[Len(stroke)]
             dx == Abs(e[1] - s[1])
             dy == Abs(e[2] - s[2])
             total == dx + dy
         IN  IF total < 1 THEN "unknown"
             ELSE IF IsCurved(stroke) THEN "unknown"
             ELSE IF 10 * dx >= 7 * total THEN "horizontal"
             ELSE IF 10 * dy >= 7 * total THEN "vertical"
             ELSE IF 10 * dx > 3 * total /\ 10 * dy > 3 * total
                  THEN IF (e[1] > s[1] /\ e[2] > s[2]) \/ (e[1] < s[1] /\ e[2] < s[2])
                       THEN "diagonal_down_right"
                       ELSE "diagonal_down_left"
             ELSE "unknown"

\* calculate_similarity_matrix: matrix[i][j] = similarity(template i, user j)
calculate_similarity_matrix(template_strokes, user_strokes) ==
    [i \in 1..Len(template_strokes) |->
        [j \in 1..Len(user_strokes) |->
            compare_strokes(template_strokes[i], user_strokes[j])]]

\* compare_strokes raises for some pair of the matrix
MatrixRaises(template_strokes, user_strokes) ==
    \E i \in 1..Len(template_strokes), j \in 1..Len(user_strokes) :
        DtwRaises(template_strokes[i], user_strokes[j])

\* np.argmax: the first index holding the maximum
ArgMax(row) ==
    CHOOSE j \in 1..Len(row) :
        /\ \A k \in 1..Len(row) : row[k] <= row[j]
        /\ \A k \in 1..(j - 1) : row[k] < row[j]

\* order_penalty after the loop: order_penalty_factor / n for each template
\* stroke whose best match is another index (order_penalty_factor = 0.3)
OrderPenaltyFactor == 3000

\* the penalty of one misplaced stroke not divided by the stroke count
OrderPenaltyNotDivided(matrix, n) ==
    OrderPenaltyFactor * Cardinality({i \in 1..n : ArgMax(matrix[i]) # i})

\* a penalty charged for the strokes that are their own best match
OrderPenaltyForMatches(matrix, n) ==
    (OrderPenaltyFactor * Cardinality({i \in 1..n : ArgMax(matrix[i]) = i})) \div n

OrderPenalty(matrix, n) ==
    (OrderPenaltyFactor * Cardinality({i \in 1..n : ArgMax(matrix[i]) # i})) \div n

\* fields of StrokeOrderResult (stroke_order.py, class StrokeOrderResult)
StrokeOrderResult(is_valid, score, stroke_count_match, order_penalty, direction_match_rate) ==
    [is_valid |-> is_valid, score |-> score, stroke_count_match |-> stroke_count_match,
     order_penalty |-> order_penalty, direction_match_rate |-> direction_match_rate]

\* number of calculate_dtw_distance calls the matrix loop makes: all of them,
\* or those up to the first one that raises
MatrixCalls(template_strokes, user_strokes) ==
    LET m == Len(user_strokes)
        nAll == Len(template_strokes) * m
        Raising == {k \in 1..nAll :
                       DtwRaises(template_strokes[((k - 1) \div m) + 1],
                                 user_strokes[((k - 1) % m) + 1])}
    IN  IF Raising = {} THEN nAll
        ELSE CHOOSE k \in Raising : \A k2 \in Raising : k <= k2

\* lines 190-196: mean of the diagonal, halved when it is below 0.6
AvgSimilarity(matrix, n) ==
    LET mean_diag == SumSeq([i \in 1..n |-> matrix[i][i]]) \div n
    IN  IF mean_diag < 6000 THEN mean_diag \div 2 ELSE mean_diag

\* a rate that counts two strokes of unknown direction as a match
DirectionMatchRateCountingUnknown(template_strokes, user_strokes) ==
    LET n == Len(template_strokes)
        direction_matches ==
            Cardinality({i \in 1..n :
                detect_stroke_direction(template_strokes[i])
                    = detect_stroke_direction(user_strokes[i])})
    IN  (direction_matches * Scale) \div n

\* lines 198-206: the share of indices whose two strokes have one direction,
\* which is not UNKNOWN
DirectionMatchRate(template_strokes, user_strokes) ==
    LET n == Len(template_strokes)
        direction_matches ==
            Cardinality({i \in 1..n :
                /\ detect_stroke_direction(template_strokes[i])
                       = detect_stroke_direction(user_strokes[i])
                /\ detect_stroke_direction(template_strokes[i]) # "unknown"})
    IN  (direction_matches * Scale) \div n

\* a boost given from a rate of one half on
VerdictScoreBoostAtHalf(avg_similarity, order_penalty, direction_match_rate) ==
    LET penalised == (avg_similarity * (Scale - order_penalty)) \div Scale
    IN  IF direction_match_rate >= 5000
        THEN Min(Scale, penalised + direction_match_rate \div 10)
        ELSE penalised

\* lines 208-217: the penalised similarity, boosted when the rate is above 0.5
VerdictScore(avg_similarity, order_penalty, direction_match_rate) ==
    LET penalised == (avg_similarity * (Scale - order_penalty)) \div Scale
    IN  IF direction_match_rate > 5000
        THEN Min(Scale, penalised + direction_match_rate \div 10)
        ELSE penalised

\* the count-match path with validity decided by the score alone
ValidateMatchedScoreOnly(template_strokes, user_strokes) ==
    LET n == Len(template_strokes)
        matrix == calculate_similarity_matrix(template_strokes, user_strokes)
        order_penalty == OrderPenalty(matrix, n)
        direction_match_rate == DirectionMatchRate(template_strokes, user_strokes)
        score == VerdictScore(AvgSimilarity(matrix, n), order_penalty,
                              direction_match_rate)
    IN  StrokeOrderResult(score >= 7000, score, TRUE,
                          order_penalty, direction_match_rate)

\* validate_stroke_order, count-match path (lines 173-228)
ValidateMatched(template_strokes, user_strokes) ==
    LET n == Len(template_strokes)
        matrix == calculate_similarity_matrix(template_strokes, user_strokes)
        order_penalty == OrderPenalty(matrix, n)
        direction_match_rate == DirectionMatchRate(template_strokes, user_strokes)
        score == VerdictScore(AvgSimilarity(matrix, n), order_penalty,
                              direction_match_rate)
    IN  StrokeOrderResult(score >= 7000 /\ order_penalty < 3000, score, TRUE,
                          order_penalty, direction_match_rate)

\* the similarity matrix built before the stroke counts are compared
validate_stroke_order_MatrixFirst(template_strokes, user_strokes) ==
    IF user_strokes = << >>
    THEN [raised |-> FALSE, dtw_calls |-> 0,
          result |-> StrokeOrderResult(FALSE, 0, FALSE, Scale, 0)]
    ELSE IF MatrixRaises(template_strokes, user_strokes)
    THEN [raised |-> TRUE, dtw_calls |-> MatrixCalls(template_strokes, user_strokes),
          result |-> StrokeOrderResult(FALSE, 0, FALSE, 0, 0)]
    ELSE IF Len(user_strokes) # Len(template_strokes)
    THEN [raised |-> FALSE, dtw_calls |-> MatrixCalls(template_strokes, user_strokes),
          result |-> StrokeOrderResult(FALSE, 3000, FALSE, 5000, 0)]
    ELSE [raised |-> FALSE, dtw_calls |-> MatrixCalls(template_strokes, user_strokes),
          result |-> ValidateMatched(template_strokes, user_strokes)]

\* the count-mismatch branch returning the verdict of the empty branch
validate_stroke_order_MismatchAsEmpty(template_strokes, user_strokes) ==
    IF user_strokes = << >> \/ Len(user_strokes) # Len(template_strokes)
    THEN [raised |-> FALSE, dtw_calls |-> 0,
          result |-> StrokeOrderResult(FALSE, 0, FALSE, Scale, 0)]
    ELSE IF MatrixRaises(template_strokes, user_strokes)
    THEN [raised |-> TRUE, dtw_calls |-> MatrixCalls(template_strokes, user_strokes),
          result |-> StrokeOrderResult(FALSE, 0, FALSE, 0, 0)]
    ELSE [raised |-> FALSE, dtw_calls |-> MatrixCalls(template_strokes, user_strokes),
          result |-> ValidateMatched(template_strokes, user_strokes)]

\* validate_stroke_order(template_strokes, user_strokes): the verdict, whether
\* the call raised instead of returning, and the DTW calls it made
validate_stroke_order(template_strokes, user_strokes) ==
    IF user_strokes = << >>
    THEN [raised |-> FALSE, dtw_calls |-> 0,
          result |-> StrokeOrderResult(FALSE, 0, FALSE, Scale, 0)]
    ELSE IF Len(user_strokes) # Len(template_strokes)
    THEN [raised |-> FALSE, dtw_calls |-> 0,
          result |-> StrokeOrderResult(FALSE, 3000, FALSE, 5000, 0)]
    ELSE IF MatrixRaises(template_strokes, user_strokes)
    THEN [raised |-> TRUE, dtw_calls |-> MatrixCalls(template_strokes, user_strokes),
          result |-> StrokeOrderResult(FALSE, 0, FALSE, 0, 0)]
    ELSE [raised |-> FALSE, dtw_calls |-> MatrixCalls(template_strokes, user_strokes),
          result |-> ValidateMatched(template_strokes, user_strokes)]

----------------------------------------------------------------------------
(* backend/app/scoring/posture_scorer.py; metrics in tenths, penalties and
   scores in thousandths of a point *)

SPINE_ANGLE_WARNING == 100
SPINE_ANGLE_CRITICAL == 200
EYE_DISTANCE_WARNING == 350
EYE_DISTANCE_CRITICAL == 250
HEAD_TILT_WARNING == 150
HEAD_TILT_CRITICAL == 300
SPINE_PENALTY_MAX == 30000
EYE_DISTANCE_PENALTY_MAX == 40000
HEAD_TILT_PENALTY_MAX == 30000

_evaluate_spine_angle(angle) ==
    IF angle < SPINE_ANGLE_WARNING THEN 0
    ELSE IF angle < SPINE_ANGLE_CRITICAL
    THEN ((angle - SPINE_ANGLE_WARNING) * (SPINE_PENALTY_MAX \div 2))
             \div (SPINE_ANGLE_CRITICAL - SPINE_ANGLE_WARNING)
    ELSE SPINE_PENALTY_MAX

\* a ramp that climbs to the whole maximum penalty, not to half of it
_evaluate_eye_distance_FullRamp(distance) ==
    IF distance >= EYE_DISTANCE_WARNING THEN 0
    ELSE IF distance > EYE_DISTANCE_CRITICAL
    THEN ((EYE_DISTANCE_WARNING - distance) * EYE_DISTANCE_PENALTY_MAX)
             \div (EYE_DISTANCE_WARNING - EYE_DISTANCE_CRITICAL)
    ELSE EYE_DISTANCE_PENALTY_MAX

_evaluate_eye_distance(distance) ==
    IF distance >= EYE_DISTANCE_WARNING THEN 0
    ELSE IF distance > EYE_DISTANCE_CRITICAL
    THEN ((EYE_DISTANCE_WARNING - distance) * (EYE_DISTANCE_PENALTY_MAX \div 2))
             \div (EYE_DISTANCE_WARNING - EYE_DISTANCE_CRITICAL)
    ELSE EYE_DISTANCE_PENALTY_MAX

_evaluate_head_tilt(tilt) ==
    IF tilt < HEAD_TILT_WARNING THEN 0
    ELSE IF tilt < HEAD_TILT_CRITICAL
    THEN ((tilt - HEAD_TILT_WARNING) * (HEAD_TILT_PENALTY_MAX \div 2))
             \div (HEAD_TILT_CRITICAL - HEAD_TILT_WARNING)
    ELSE HEAD_TILT_PENALTY_MAX

\* a level that takes a metric exactly at its warning threshold as good
_determine_level_StrictWarning(spine_angle, eye_distance, head_tilt) ==
    IF \/ spine_angle >= SPINE_ANGLE_CRITICAL
       \/ eye_distance <= EYE_DISTANCE_CRITICAL
       \/ head_tilt >= HEAD_TILT_CRITICAL
    THEN "critical"
    ELSE IF \/ spine_angle > SPINE_ANGLE_WARNING
            \/ eye_distance < EYE_DISTANCE_WARNING
            \/ head_tilt > HEAD_TILT_WARNING
    THEN "warning"
    ELSE "good"

_determine_level(spine_angle, eye_distance, head_tilt) ==
    IF \/ spine_angle >= SPINE_ANGLE_CRITICAL
       \/ eye_distance <= EYE_DISTANCE_CRITICAL
       \/ head_tilt >= HEAD_TILT_CRITICAL
    THEN "critical"
    ELSE IF \/ spine_angle >= SPINE_ANGLE_WARNING
            \/ eye_distance <= EYE_DISTANCE_WARNING
            \/ head_tilt >= HEAD_TILT_WARNING
    THEN "warning"
    ELSE "good"

\* issues of PostureScorer.score, by the metric each one names
PostureIssues(d) ==
    (IF _evaluate_spine_angle(d.spine_angle) > 0 /\ d.spine_angle >= SPINE_ANGLE_CRITICAL
     THEN <<"spine">> ELSE << >>)
    \o (IF _evaluate_eye_distance(d.eye_screen_distance) > 0
           /\ d.eye_screen_distance <= EYE_DISTANCE_CRITICAL
        THEN <<"distance">> ELSE << >>)
    \o (IF _evaluate_head_tilt(d.head_tilt) > 0 /\ d.head_tilt >= HEAD_TILT_CRITICAL
        THEN <<"head">> ELSE << >>)

\* _generate_feedback (lines 244-283): the parts joined by the source
_generate_feedback(issues, score) ==
    IF issues = << >>
    THEN IF score >= 95000 THEN <<"zuo zi biao zhun, ji xu bao chi">>
         ELSE <<"zuo zi liang hao, shao wei tiao zheng">>
    ELSE [k \in 1..Len(issues) |->
            IF issues[k] = "spine" THEN "qing zuo zhi shen ti"
            ELSE IF issues[k] = "distance" THEN "qing yuan li ping mu"
            ELSE "qing bai zheng tou bu"]

\* PostureScorer.score / score_posture
score_posture(d) ==
    LET raw == 100000 - _evaluate_spine_angle(d.spine_angle)
                      - _evaluate_eye_distance(d.eye_screen_distance)
                      - _evaluate_head_tilt(d.head_tilt)
        score == Max(0, Min(100000, raw))
        level == _determine_level(d.spine_angle, d.eye_screen_distance, d.head_tilt)
        issues == PostureIssues(d)
    IN  [is_correct |-> level = "good", score |-> score, level |-> level,
         issues |-> issues, feedback |-> _generate_feedback(issues, score),
         spine_angle |-> d.spine_angle, eye_screen_distance |-> d.eye_screen_distance,
         head_tilt |-> d.head_tilt]

----------------------------------------------------------------------------
(* backend/app/api/scoring.py *)

\* weights in tenths: total = handwriting * 0.7 + posture * 0.3
HANDWRITING_WEIGHT == 7
POSTURE_WEIGHT == 3

\* grades of _get_grade: "优秀", "良好", "及格", "需练习"
GradeExcellent == "you xiu"
GradeGood == "liang hao"
GradePass == "ji ge"
GradeNeedsPractice == "xu lian xi"

\* feedback and message of the short-circuit result: "笔顺错误"
FeedbackStrokeOrderError == <<"bi shun cuo wu">>

\* _get_grade(score), score in 1/10000 of a point
_get_grade(score) ==
    IF score >= 900000 THEN GradeExcellent
    ELSE IF score >= 800000 THEN GradeGood
    ELSE IF score >= 600000 THEN GradePass
    ELSE GradeNeedsPractice

\* _generate_comprehensive_feedback: handwriting_score in tenths,
\* posture_score in thousandths, posture_analysis optional
_generate_comprehensive_feedback(handwriting_score, posture_score, posture_analysis) ==
    <<IF handwriting_score >= 900 THEN "zi xie de hen hao"
      ELSE IF handwriting_score >= 700 THEN "zi xie de bu cuo"
      ELSE IF handwriting_score >= 600 THEN "zi xie de yi ban"
      ELSE "zi xu yao duo lian xi">>
    \o (IF posture_analysis = << >> THEN << >>
        ELSE IF posture_analysis[1].is_correct
             THEN IF posture_score >= 90000 THEN <<"zuo zi ye hen biao zhun">>
                  ELSE <<"zuo zi liang hao">>
        ELSE <<"dan">> \o posture_analysis[1].feedback)

\* fields declared by ComprehensiveScoreResult (models/posture.py); the model
\* ignores keyword arguments that are not fields
ResultFields ==
    {"total_score", "handwriting_score", "posture_score", "grade",
     "stroke_analysis", "posture_analysis", "feedback"}

ComprehensiveScoreResult(kwargs) ==
    [f \in ResultFields \cap DOMAIN kwargs |-> kwargs[f]]

HttpError(status, detail) == <<[status |-> status, detail |-> detail, body |-> << >>]>>
HttpOk(result) == <<[status |-> 200, detail |-> "", body |-> <<result>>]>>

\* the except clause of comprehensive_score: anything but an HTTPException
\* becomes a 500
InternalError == HttpError(500, "ping fen shi bai")

\* the input check without the test of the stroke list
ValidateInputNoStrokeCheck(req) ==
    IF req.character = << >> \/ Len(req.character) # 1
    THEN <<"qing ti gong dan ge han zi">>
    ELSE << >>

\* lines 105-115: the detail of the 400 the input earns, or none
ValidateInput(req) ==
    IF req.character = << >> \/ Len(req.character) # 1
    THEN <<"qing ti gong dan ge han zi">>
    ELSE IF req.user_strokes = << >>
    THEN <<"qing ti gong shu xie bi hua shu ju">>
    ELSE << >>

\* lines 128-139: the result of the short circuit.  Building it reads
\* order_result.error_type, which raises AttributeError when the verdict has
\* no such attribute
ShortCircuit(verdict) ==
    IF "error_type" \in DOMAIN verdict
    THEN HttpOk(ComprehensiveScoreResult(
             [total_score |-> 0, handwriting_score |-> 0, posture_score |-> 0,
              grade |-> GradeNeedsPractice, stroke_analysis |-> << >>,
              posture_analysis |-> << >>, feedback |-> FeedbackStrokeOrderError,
              error_type |-> verdict.error_type, message |-> FeedbackStrokeOrderError]))
    ELSE InternalError

\* an iteration that takes the last stroke for one beyond the reference
ScoreOneStroke_LastIsExtra(i, user_stroke, reference_medians) ==
    IF i < Len(reference_medians)
    THEN IF DtwRaises(user_stroke, reference_medians[i])
         THEN [similarity |-> 0,
               analysis |-> [stroke_index |-> i - 1, similarity |-> 0, score |-> 0,
                             issues |-> <<"ping fen shi bai">>]]
         ELSE LET distance == calculate_dtw_distance(user_stroke, reference_medians[i])
                  similarity == normalize_score(distance, 5000)
              IN  [similarity |-> similarity,
                   analysis |-> [stroke_index |-> i - 1,
                                 similarity |-> RoundHalfEven(similarity, 10),
                                 score |-> RoundHalfEven(similarity, 10),
                                 issues |-> IF similarity < 6000
                                            THEN <<"bi yu biao zhun cha yi jiao da">>
                                            ELSE << >>]]
    ELSE [similarity |-> 0,
          analysis |-> [stroke_index |-> i - 1, similarity |-> 0, score |-> 0,
                        issues |-> <<"duo yu de bi hua">>]]

\* one iteration of the loop of _score_handwriting (lines 303-350):
\* the similarity appended to stroke_scores and the analysis appended
ScoreOneStroke(i, user_stroke, reference_medians) ==
    IF i <= Len(reference_medians)
    THEN IF DtwRaises(user_stroke, reference_medians[i])
         THEN [similarity |-> 0,
               analysis |-> [stroke_index |-> i - 1, similarity |-> 0, score |-> 0,
                             issues |-> <<"ping fen shi bai">>]]
         ELSE LET distance == calculate_dtw_distance(user_stroke, reference_medians[i])
                  similarity == normalize_score(distance, 5000)
              IN  [similarity |-> similarity,
                   analysis |-> [stroke_index |-> i - 1,
                                 similarity |-> RoundHalfEven(similarity, 10),
                                 score |-> RoundHalfEven(similarity, 10),
                                 issues |-> IF similarity < 6000
                                            THEN <<"bi yu biao zhun cha yi jiao da">>
                                            ELSE << >>]]
    ELSE [similarity |-> 0,
          analysis |-> [stroke_index |-> i - 1, similarity |-> 0, score |-> 0,
                        issues |-> <<"duo yu de bi hua">>]]

\* lines 352-358: round(sum / len * 100, 1), in tenths
HandwritingScore(scores) ==
    IF scores = << >> THEN 0
    ELSE RoundHalfEven(SumSeq(scores), 10 * Len(scores))

\* posture_score when the request carries no posture sample (line 149)
DefaultPostureScore == 100000

\* a posture sample is scored, an omitted one costs nothing
PostureScoreOfNoDefault(posture_analysis) ==
    IF posture_analysis = << >> THEN 0 ELSE posture_analysis[1].score

\* lines 149-158: posture_score
PostureScoreOf(posture_analysis) ==
    IF posture_analysis = << >> THEN DefaultPostureScore
    ELSE posture_analysis[1].score

\* lines 148-183: posture, weighted total, grade, feedback and the response
BuildResult(req, handwriting_score, analyses) ==
    LET posture_analysis == IF req.posture_data = << >> THEN << >>
                            ELSE <<score_posture(req.posture_data[1])>>
        posture_score == PostureScoreOf(posture_analysis)
        total_score == handwriting_score * 100 * HANDWRITING_WEIGHT
                       + posture_score * POSTURE_WEIGHT
    IN  ComprehensiveScoreResult(
            [total_score |-> RoundHalfEven(total_score, 1000),
             handwriting_score |-> handwriting_score,
             posture_score |-> RoundHalfEven(posture_score, 100),
             grade |-> _get_grade(total_score),
             stroke_analysis |-> analyses,
             posture_analysis |-> posture_analysis,
             feedback |-> _generate_comprehensive_feedback(
                              handwriting_score, posture_score, posture_analysis)])

----------------------------------------------------------------------------
(* The handler as a state machine *)

\* threads that construct InkSightModel
Threads == {"t1", "t2"}

\* inksight.py:57-58 before any call: no instance, the lock free, no thread
\* inside a call; the attributes are those of the one object once it exists
NoInstance ==
    [instance |-> 0, created |-> 0, lock |-> "free",
     initialized |-> FALSE, model |-> "unset", is_loaded |-> FALSE,
     loads |-> 0,
     at |-> [t \in Threads |-> "idle"],
     self |-> [t \in Threads |-> 0],
     calls |-> [t \in Threads |-> 0]]

NoRequest == [character |-> << >>, user_strokes |-> << >>, posture_data |-> << >>]

Init ==
    /\ pc = "idle"
    /\ request = NoRequest
    /\ lookup = "none"
    /\ reference_data = << >>
    /\ order_result = << >>
    /\ stroke_scores = << >>
    /\ stroke_analyses = << >>
    /\ dtw_calls = 0
    /\ order_calls = 0
    /\ posture_calls = 0
    /\ response = << >>
    /\ extracted = << >>
    /\ unit = << >>
    /\ singleton = NoInstance

\* comprehensive_score is entered with a request; lines 104-115
Receive(req) ==
    /\ pc = "idle"
    /\ request' = req
    /\ IF ValidateInput(req) # << >>
       THEN /\ response' = HttpError(400, ValidateInput(req)[1])
            /\ pc' = "done"
       ELSE /\ response' = response
            /\ pc' = "load"
    /\ UNCHANGED <<singleton, extracted, unit, lookup, reference_data, order_result, stroke_scores,
                   stroke_analyses, dtw_calls, order_calls, posture_calls>>

\* line 120, the loader returns the character
LoadCharacterFound(template) ==
    /\ pc = "load"
    /\ lookup' = "found"
    /\ reference_data' = template
    /\ pc' = "order"
    /\ UNCHANGED <<singleton, extracted, unit, request, order_result, stroke_scores, stroke_analyses,
                   dtw_calls, order_calls, posture_calls, response>>

\* line 120, the loader raises: httpx.HTTPStatusError (404 of the CDN),
\* httpx.NetworkError or ValueError; lines 187-192 turn each into a 500
LoadFailures == {"not_found", "network_error", "invalid_data"}

LoadCharacterFails(failure) ==
    /\ pc = "load"
    /\ lookup' = failure
    /\ response' = InternalError
    /\ pc' = "done"
    /\ UNCHANGED <<singleton, extracted, unit, request, reference_data, order_result, stroke_scores,
                   stroke_analyses, dtw_calls, order_calls, posture_calls>>

\* lines 123-127
ValidateOrder ==
    /\ pc = "order"
    /\ LET v == validate_stroke_order(reference_data, request.user_strokes)
       IN  /\ order_calls' = order_calls + 1
           /\ dtw_calls' = dtw_calls + v.dtw_calls
           /\ IF v.raised
              THEN /\ response' = InternalError
                   /\ order_result' = order_result
                   /\ pc' = "done"
              ELSE /\ response' = response
                   /\ order_result' = <<v.result>>
                   /\ pc' = "gate"
    /\ UNCHANGED <<singleton, extracted, unit, request, lookup, reference_data, stroke_scores,
                   stroke_analyses, posture_calls>>

\* lines 128-139
Gate ==
    /\ pc = "gate"
    /\ IF ~order_result[1].is_valid \/ ~order_result[1].stroke_count_match
       THEN /\ response' = ShortCircuit(order_result[1])
            /\ pc' = "done"
       ELSE /\ response' = response
            /\ pc' = "score"
    /\ UNCHANGED <<singleton, extracted, unit, request, lookup, reference_data, order_result, stroke_scores,
                   stroke_analyses, dtw_calls, order_calls, posture_calls>>

\* lines 303-350, one stroke
ScoreStroke ==
    /\ pc = "score"
    /\ Len(stroke_scores) < Len(request.user_strokes)
    /\ LET i == Len(stroke_scores) + 1
           r == ScoreOneStroke(i, request.user_strokes[i], reference_data)
       IN  /\ stroke_scores' = Append(stroke_scores, r.similarity)
           /\ stroke_analyses' = Append(stroke_analyses, r.analysis)
           /\ dtw_calls' = IF i <= Len(reference_data) THEN dtw_calls + 1 ELSE dtw_calls
    /\ UNCHANGED <<singleton, extracted, unit, pc, request, lookup, reference_data, order_result,
                   order_calls, posture_calls, response>>

\* lines 352-358 and 148-183
Respond ==
    /\ pc = "score"
    /\ Len(stroke_scores) = Len(request.user_strokes)
    /\ response' = HttpOk(BuildResult(request, HandwritingScore(stroke_scores),
                                      stroke_analyses))
    /\ posture_calls' = IF request.posture_data = << >> THEN posture_calls
                        ELSE posture_calls + 1
    /\ pc' = "done"
    /\ UNCHANGED <<singleton, extracted, unit, request, lookup, reference_data, order_result, stroke_scores,
                   stroke_analyses, dtw_calls, order_calls>>

Next ==
    \/ \E req \in Requests : Receive(req)
    \/ \E template \in Templates : LoadCharacterFound(template)
    \/ \E failure \in LoadFailures : LoadCharacterFails(failure)
    \/ ValidateOrder
    \/ Gate
    \/ ScoreStroke
    \/ Respond

Spec == Init /\ [][Next]_vars

----------------------------------------------------------------------------
(* validate_stroke_order called on its own, as the unit tests call it *)

\* besides the strokes of the handler's pool: a diagonal, and the horizontal
\* drawn from right to left
StrokeD  == << <<1, 1>>, <<9, 9>> >>
StrokeHr == << <<9, 1>>, <<1, 1>> >>

ValidatorTemplates == SeqsUpTo(TemplateStrokePool \cup {StrokeD}, MaxStrokes)
ValidatorUserStrokeLists ==
    SeqsUpTo(UserStrokePool \cup {StrokeD, StrokeHr}, MaxStrokes)

CallValidateStrokeOrder(template_strokes, user_strokes) ==
    /\ pc = "idle"
    /\ LET v == validate_stroke_order(template_strokes, user_strokes)
       IN  /\ order_result' = IF v.raised THEN << >> ELSE <<v.result>>
           /\ pc' = IF v.raised THEN "raised" ELSE "returned"
           /\ dtw_calls' = v.dtw_calls
    /\ reference_data' = template_strokes
    /\ request' = [request EXCEPT !.user_strokes = user_strokes]
    /\ order_calls' = 1
    /\ UNCHANGED <<singleton, extracted, unit, lookup, stroke_scores, stroke_analyses, posture_calls, response>>

\* arguments are drawn only while no call has been made
IdleOnly(S) == IF pc = "idle" THEN S ELSE {}

NextValidate ==
    \E t \in IdleOnly(ValidatorTemplates), u \in IdleOnly(ValidatorUserStrokeLists) :
        CallValidateStrokeOrder(t, u)

SpecValidate == Init /\ [][NextValidate]_vars

----------------------------------------------------------------------------
(* Properties *)

Finished == pc = "done" /\ response # << >>
Status == response[1].status
Body == response[1].body[1]
ReturnedResult == Finished /\ Status = 200 /\ response[1].body # << >>
TemplateLoaded == lookup = "found"
CountMismatch == TemplateLoaded /\ Len(request.user_strokes) # Len(reference_data)
CountMatch == TemplateLoaded /\ Len(request.user_strokes) = Len(reference_data)
Verdict == order_result[1]

\* C1: a request whose stroke count differs from the template's gets a 200
\* result with total_score 0.0, feedback "bi shun cuo wu" and error_type
\* "stroke_count_mismatch", whatever the strokes and the posture data are.
C1_MismatchYieldsZeroResult ==
    (Finished /\ CountMismatch) =>
        /\ Status = 200
        /\ response[1].body # << >>
        /\ Body.total_score = 0
        /\ Body.feedback = FeedbackStrokeOrderError
        /\ "error_type" \in DOMAIN Body
        /\ Body.error_type = "stroke_count_mismatch"

\* C2: when the stroke counts differ no DTW distance is computed at any
\* point of the evaluation, neither by the validator nor by per-stroke scoring.
C2_NoAlignmentOnCountMismatch ==
    CountMismatch => (dtw_calls = 0 /\ stroke_scores = << >> /\ stroke_analyses = << >>)

C2_Witness ==
    Finished /\ CountMismatch /\ order_calls = 1 /\ order_result # << >>

\* C3: whenever the stroke counts are equal the handler returns a 200 result
\* that is not the stroke-order error, even for inaccurate trajectories.
C3_CountMatchEntersScoring ==
    (Finished /\ CountMatch) =>
        /\ Status = 200
        /\ response[1].body # << >>
        /\ Body.feedback # FeedbackStrokeOrderError
        /\ "error_type" \notin DOMAIN Body

\* C4: user strokes that copy the template's medians get a valid verdict
\* (is_valid and stroke_count_match) and are not short-circuited.
C4_ExactCopyIsValid ==
    (TemplateLoaded /\ request.user_strokes = reference_data /\ pc # "order") =>
        /\ order_result # << >>
        /\ Verdict.is_valid
        /\ Verdict.stroke_count_match
        /\ pc = "done" => (ReturnedResult /\ Body.feedback # FeedbackStrokeOrderError)

C4_Witness ==
    /\ ReturnedResult
    /\ request.user_strokes = reference_data
    /\ reference_data = <<StrokeH, StrokeH>>

\* C5: the validator's gating verdicts are fixed: a non-empty stroke list of
\* another length than the template gives is_valid FALSE, stroke_count_match
\* FALSE, score 0.3, order_penalty 0.5; an empty list gives is_valid FALSE, score 0.
C5_FixedGatingVerdicts ==
    pc = "returned" =>
        /\ (request.user_strokes # << >>
            /\ Len(request.user_strokes) # Len(reference_data)) =>
               /\ ~Verdict.is_valid
               /\ ~Verdict.stroke_count_match
               /\ Verdict.score = 3000
               /\ Verdict.order_penalty = 5000
        /\ request.user_strokes = << >> =>
               (~Verdict.is_valid /\ Verdict.score = 0)

C5_Witness ==
    /\ pc = "returned"
    /\ Len(reference_data) = 2
    /\ Len(request.user_strokes) = 1
    /\ Verdict.score = 3000

\* C6: every verdict the validator returns has
\* is_valid <=> (score >= 0.7 and order_penalty < 0.3).
C6_ValidIffScoreAndPenalty ==
    pc = "returned" =>
        (Verdict.is_valid <=> (Verdict.score >= 7000 /\ Verdict.order_penalty < 3000))

C6_Witness ==
    /\ pc = "returned"
    /\ Verdict.stroke_count_match
    /\ Verdict.score >= 7000
    /\ Verdict.order_penalty >= 3000
    /\ ~Verdict.is_valid

\* C7: a request that passes the gate and carries no posture sample gets
\* posture_score 100, no posture_analysis and total_score equal to
\* 0.7 * handwriting_score + 0.3 * 100 to one decimal; handwriting_score 90
\* gives total 93.0 and the grade "you xiu".
C7_OmittedPostureDefaults ==
    (ReturnedResult /\ request.posture_data = << >>) =>
        /\ Body.posture_score = 1000
        /\ Body.posture_analysis = << >>
        /\ Abs(Body.total_score * 1000 - (Body.handwriting_score * 700 + 300000)) <= 500
        /\ Body.handwriting_score = 900 =>
               (Body.total_score = 930 /\ Body.grade = GradeExcellent)

C7_Witness ==
    /\ ReturnedResult
    /\ request.posture_data = << >>
    /\ Body.handwriting_score < 1000
    /\ Body.total_score = RoundHalfEven(Body.handwriting_score * 700 + 300000, 1000)

\* the band of a returned total_score (tenths)
BandOf(total_score) ==
    IF total_score >= 900 THEN GradeExcellent
    ELSE IF total_score >= 800 THEN GradeGood
    ELSE IF total_score >= 600 THEN GradePass
    ELSE GradeNeedsPractice

\* C8: in every returned result the grade is the band of the returned
\* total_score: >= 90, >= 80, >= 60, below 60.
C8_GradeAgreesWithTotal ==
    ReturnedResult => Body.grade = BandOf(Body.total_score)

C10_NotFoundIs404 ==
    (Finished /\ lookup = "not_found") => Status = 404

----------------------------------------------------------------------------
(* backend/app/algorithms/resampling.py, called on its own                 *)
(* Input coordinates are in tenths; arc lengths and output coordinates are *)
(* in 1/10000 (Scale), so an input coordinate c is c * FineUnit there.     *)

\* most points in a stroke handed to a library function called on its own
MaxPoints == 3

\* largest target_points handed to resample_stroke
MaxTarget == 4

\* one tenth expressed in 1/10000
FineUnit == Scale \div CoordScale

\* points the strokes of the library calls are built from (tenths)
PointPool == {<<1, 1>>, <<9, 1>>, <<1, 9>>}

\* every stroke of at most MaxPoints points, the empty stroke included
PointStrokes == SeqsUpTo(PointPool, MaxPoints)

\* target_points: the unsigned sizes and one negative value
Targets == (-1) .. MaxTarget

\* floor of the square root, found by bisection between lo and hi
RECURSIVE ISqrtBetween(_, _, _)
ISqrtBetween(x, lo, hi) ==
    IF lo >= hi THEN lo
    ELSE LET mid == (lo + hi + 1) \div 2
         IN  IF mid * mid <= x THEN ISqrtBetween(x, mid, hi)
             ELSE ISqrtBetween(x, lo, mid - 1)

ISqrt(x) == ISqrtBetween(x, 0, 2 * Scale)

\* lines 46-47: np.sqrt((diffs ** 2).sum(axis=1)), segment i
SegmentLength(stroke, i) ==
    LET dx == (stroke[i + 1][1] - stroke[i][1]) * FineUnit
        dy == (stroke[i + 1][2] - stroke[i][2]) * FineUnit
    IN  ISqrt(dx * dx + dy * dy)

\* line 50: cumdist = np.concatenate([[0], np.cumsum(segment_lengths)])
RECURSIVE CumDist(_, _)
CumDist(stroke, i) ==
    IF i = 1 THEN 0 ELSE CumDist(stroke, i - 1) + SegmentLength(stroke, i - 1)

\* np.linspace with endpoint=False
LinspaceNoEndpoint(total_length, target_points, k) ==
    (k * total_length) \div target_points

\* line 59: np.linspace(0, total_length, target_points), element k (from 0)
Linspace(total_length, target_points, k) ==
    IF target_points = 1 THEN 0
    ELSE (k * total_length) \div (target_points - 1)

\* lines 62-63, np.interp(t, xp, fp): the last sample at or right of the end, otherwise
\* linear between the last knot at or left of t and the next one
Interp(t, xp, fp) ==
    LET j == CHOOSE k \in 1..Len(xp) :
                 /\ xp[k] <= t
                 /\ \A l \in (k + 1)..Len(xp) : xp[l] > t
    IN  IF j = Len(xp) THEN fp[j]
        ELSE fp[j] + ((fp[j + 1] - fp[j]) * (t - xp[j])) \div (xp[j + 1] - xp[j])

\* the point, in 1/10000
Fine(point) == <<point[1] * FineUnit, point[2] * FineUnit>>

\* lines 39 and 56, [stroke[0]] * target_points: an empty list when target_points <= 0
Repeated(point, target_points) == [k \in 1..target_points |-> Fine(point)]

\* line 59: np.linspace raises ValueError for a negative number of samples;
\* the early returns (lines 37-39, 54-56) come before it
ResampleRaises(stroke, target_points) ==
    /\ Len(stroke) >= 2
    /\ CumDist(stroke, Len(stroke)) > 0
    /\ target_points < 0

\* resample_stroke returning a single-point stroke as it is
resample_stroke_SinglePointOnce(stroke, target_points) ==
    IF stroke = << >> THEN << >>
    ELSE IF Len(stroke) = 1 THEN <<Fine(stroke[1])>>
    ELSE LET xp == [i \in 1..Len(stroke) |-> CumDist(stroke, i)]
             xs == [i \in 1..Len(stroke) |-> stroke[i][1] * FineUnit]
             ys == [i \in 1..Len(stroke) |-> stroke[i][2] * FineUnit]
             total_length == xp[Len(stroke)]
         IN  IF total_length = 0 THEN Repeated(stroke[1], target_points)
             ELSE [k \in 1..target_points |->
                      LET t == Linspace(total_length, target_points, k - 1)
                      IN  <<Interp(t, xp, xs), Interp(t, xp, ys)>>]

\* resample_stroke, lines 12-68, when it does not raise
resample_stroke(stroke, target_points) ==
    IF stroke = << >> THEN << >>
    ELSE IF Len(stroke) = 1 THEN Repeated(stroke[1], target_points)
    ELSE LET xp == [i \in 1..Len(stroke) |-> CumDist(stroke, i)]
             xs == [i \in 1..Len(stroke) |-> stroke[i][1] * FineUnit]
             ys == [i \in 1..Len(stroke) |-> stroke[i][2] * FineUnit]
             total_length == xp[Len(stroke)]
         IN  IF total_length = 0 THEN Repeated(stroke[1], target_points)
             ELSE [k \in 1..target_points |->
                      LET t == Linspace(total_length, target_points, k - 1)
                      IN  <<Interp(t, xp, xs), Interp(t, xp, ys)>>]

\* a library function returned: what was called, with what, and the value
Returned(fn, args, result) == <<[fn |-> fn, args |-> args, result |-> result]>>

CallResampleStroke(stroke, target_points) ==
    /\ pc = "idle"
    /\ IF ResampleRaises(stroke, target_points)
       THEN /\ pc' = "raised"
            /\ unit' = Returned("resample_stroke", <<stroke, target_points>>, << >>)
       ELSE /\ pc' = "returned"
            /\ unit' = Returned("resample_stroke", <<stroke, target_points>>,
                                resample_stroke(stroke, target_points))
    /\ UNCHANGED <<singleton, request, lookup, reference_data, order_result, stroke_scores,
                   stroke_analyses, dtw_calls, order_calls, posture_calls,
                   response, extracted>>

NextResample ==
    \E stroke \in PointStrokes, target_points \in Targets :
        CallResampleStroke(stroke, target_points)

SpecResample == Init /\ [][NextResample]_vars

\* observers of a library call
Called(fn) == unit # << >> /\ unit[1].fn = fn
Args == unit[1].args
Result == unit[1].result
ZeroLength(stroke) == \A i \in 1..Len(stroke) : stroke[i] = stroke[1]

\* C11: for a non-empty stroke and target_points >= 1, resample_stroke does
\* not raise and returns exactly target_points points; a single-point stroke
\* and a stroke whose points all coincide give the first point repeated.
C11_ResampleReturnsTargetPoints ==
    (Called("resample_stroke") /\ Args[1] # << >> /\ Args[2] >= 1) =>
        /\ pc = "returned"
        /\ Len(Result) = Args[2]
        /\ (Len(Args[1]) = 1 \/ ZeroLength(Args[1])) =>
               \A k \in 1..Args[2] : Result[k] = Fine(Args[1][1])

C11_Witness ==
    /\ Called("resample_stroke") /\ pc = "returned"
    /\ Len(Args[1]) = 2 /\ ZeroLength(Args[1]) /\ Args[2] = 3
    /\ Result = <<Fine(Args[1][1]), Fine(Args[1][1]), Fine(Args[1][1])>>

----------------------------------------------------------------------------
(* backend/app/algorithms/dtw.py, calculate_dtw_distance called on its own *)

CallDtwDistance(seq1, seq2) ==
    /\ pc = "idle"
    /\ IF DtwRaises(seq1, seq2)
       THEN /\ pc' = "raised"
            /\ unit' = Returned("calculate_dtw_distance", <<seq1, seq2>>, << >>)
            /\ dtw_calls' = dtw_calls
       ELSE /\ pc' = "returned"
            /\ unit' = Returned("calculate_dtw_distance", <<seq1, seq2>>,
                                calculate_dtw_distance(seq1, seq2))
            /\ dtw_calls' = 1
    /\ UNCHANGED <<singleton, request, lookup, reference_data, order_result, stroke_scores,
                   stroke_analyses, order_calls, posture_calls, response,
                   extracted>>

NextDtw ==
    \E seq1 \in PointStrokes, seq2 \in PointStrokes : CallDtwDistance(seq1, seq2)

SpecDtw == Init /\ [][NextDtw]_vars

\* the stroke drawn backwards (test_dtw.py:31-38)
Reversed(stroke) == [i \in 1..Len(stroke) |-> stroke[Len(stroke) + 1 - i]]

\* the stroke with every run of repeated points merged into one point
RECURSIVE Collapse(_)
Collapse(stroke) ==
    IF Len(stroke) <= 1 THEN stroke
    ELSE LET rest == Collapse(Tail(stroke))
         IN  IF stroke[1] = rest[1] THEN rest ELSE <<stroke[1]>> \o rest

\* the path reads the same in both directions
Palindromic(stroke) == Collapse(stroke) = Reversed(Collapse(stroke))

\* C13: the distance of a non-empty sequence to itself is 0, single-point
\* sequences included.
C13_IdentityIsZero ==
    (Called("calculate_dtw_distance") /\ Args[1] # << >> /\ Args[2] = Args[1]) =>
        pc = "returned" /\ Result = 0

C13_Witness ==
    /\ Called("calculate_dtw_distance") /\ pc = "returned"
    /\ Args[1] = Args[2] /\ Len(Args[1]) = 3
    /\ Args[1][1] # Args[1][2] /\ Args[1][2] # Args[1][3]
    /\ Result = 0

\* C14: the distance is symmetric for non-empty sequences of any two
\* lengths, so the validator's distance for (template, user) is the
\* scoring's distance for (user, template).
C14_DistanceSymmetric ==
    (Called("calculate_dtw_distance") /\ Args[1] # << >> /\ Args[2] # << >>) =>
        /\ pc = "returned"
        /\ Result = calculate_dtw_distance(Args[2], Args[1])

C14_Witness ==
    /\ Called("calculate_dtw_distance") /\ pc = "returned"
    /\ Len(Args[1]) = 1 /\ Len(Args[2]) = 3
    /\ Result > 0
    /\ Result = calculate_dtw_distance(Args[2], Args[1])

\* C15 as stated: for every stroke T the distance between T and T drawn
\* backwards is strictly greater than the distance between T and itself.
\* A single point, or a path that returns over itself, reversed is the same
\* path and has distance 0.
C15_ReversedIsFarther ==
    (Called("calculate_dtw_distance") /\ Args[1] # << >>
        /\ Args[2] = Reversed(Args[1])) =>
        Result > calculate_dtw_distance(Args[1], Args[1])

\* C15, amended: the distance between T and T drawn backwards is strictly
\* greater than the distance between T and itself exactly when T, with
\* repeated points merged, does not read the same in both directions (as
\* every stroke whose end points differ); otherwise both distances are 0.
C15_ReversedIsFartherUnlessPalindromic ==
    (Called("calculate_dtw_distance") /\ Args[1] # << >>
        /\ Args[2] = Reversed(Args[1])) =>
        /\ ~Palindromic(Args[1]) =>
               Result > calculate_dtw_distance(Args[1], Args[1])
        /\ Palindromic(Args[1]) =>
               Result = 0 /\ calculate_dtw_distance(Args[1], Args[1]) = 0

C15_Witness ==
    /\ Called("calculate_dtw_distance") /\ pc = "returned"
    /\ Len(Args[1]) = 3 /\ Args[2] = Reversed(Args[1])
    /\ Args[1][1][1] = Args[1][3][1] /\ Args[1][1][2] # Args[1][3][2]
    /\ ~Palindromic(Args[1])
    /\ Result > 0

----------------------------------------------------------------------------
(* backend/app/scoring/normalizer.py, normalize_score called on its own *)

\* distances are multiples of DistanceStep (0.025), up to MaxDistance steps
MaxDistance == 60
DistanceStep == Scale \div 40

\* two negative distances, 0, the steps up to 1.5, and one far distance (12.0)
Distances == {k * DistanceStep : k \in (-2)..MaxDistance} \cup {12 * Scale}

\* max_distance: 0.5 as _score_handwriting passes it (scoring.py:315), 1.0 by default
MaxDistances == {Scale \div 2, Scale}

CallNormalizeScore(distance, max_distance) ==
    /\ pc = "idle"
    /\ pc' = "returned"
    /\ unit' = Returned("normalize_score", <<distance, max_distance>>,
                        normalize_score(distance, max_distance))
    /\ UNCHANGED <<singleton, request, lookup, reference_data, order_result, stroke_scores,
                   stroke_analyses, dtw_calls, order_calls, posture_calls,
                   response, extracted>>

NextNormalize ==
    \E distance \in Distances, max_distance \in MaxDistances :
        CallNormalizeScore(distance, max_distance)

SpecNormalize == Init /\ [][NextNormalize]_vars

\* C16: normalize_score(0) is 100, the score does not grow with the distance
\* and lies in [0, 100] for every distance.
C16_NormalizeMonotoneInRange ==
    Called("normalize_score") =>
        /\ Args[1] = 0 => Result = Scale
        /\ \A d2 \in Distances :
               Args[1] <= d2 => Result >= normalize_score(d2, Args[2])
        /\ 0 <= Result /\ Result <= Scale

C16_Witness ==
    /\ Called("normalize_score") /\ pc = "returned"
    /\ Args[1] > 0 /\ 0 < Result /\ Result < Scale
    /\ normalize_score(Args[1] + DistanceStep, Args[2]) < Result
    /\ normalize_score(0, Args[2]) = Scale
    /\ normalize_score(12 * Scale, Args[2]) = 0

----------------------------------------------------------------------------
(* backend/app/scoring/normalizer.py, calculate_character_score            *)
(* Stroke scores are in hundredths (100 stands for 1.0).  The total is     *)
(* kept exact as a fraction total_num / total_den of a point, because the  *)
(* penalty divides by the expected count.                                  *)

\* most stroke scores in a call, and the largest expected_stroke_count
MaxDrawn == 3
MaxExpected == 4

\* stroke scores 0.0, 0.6 and 1.0
ScoreValues == {0, 60, 100}
ScoreLists == SeqsUpTo(ScoreValues, MaxDrawn)

\* expected_stroke_count: None or a count, 0 included
ExpectedCounts == Optional(0..MaxExpected)

\* a penalty of 50 per missing share for extra strokes as well
StrokeCountPenaltySameFactor(stroke_count, expected) ==
    IF stroke_count < expected
    THEN 50 * (expected - stroke_count)
    ELSE 50 * (stroke_count - expected)

\* lines 96-106: the penalty times expected_stroke_count, in points
\* (ratio < 1.0 is stroke_count < expected_stroke_count)
StrokeCountPenalty(stroke_count, expected) ==
    IF stroke_count < expected
    THEN 50 * (expected - stroke_count)
    ELSE 25 * (stroke_count - expected)

\* line 96: stroke_count / expected_stroke_count raises ZeroDivisionError
CharacterScoreRaises(scores, expected_stroke_count) ==
    scores # << >> /\ expected_stroke_count = <<0>>

MinOf(s) == CHOOSE x \in {s[i] : i \in 1..Len(s)} : \A i \in 1..Len(s) : x <= s[i]
MaxOf(s) == CHOOSE x \in {s[i] : i \in 1..Len(s)} : \A i \in 1..Len(s) : x >= s[i]

\* ScoreBreakdown, lines 12-20
ScoreBreakdown(total_num, total_den, stroke_count, expected_count, min_score, max_score, perfect_strokes) ==
    [total_num |-> total_num, total_den |-> total_den,
     stroke_count |-> stroke_count, expected_count |-> expected_count,
     min_score |-> min_score, max_score |-> max_score,
     perfect_strokes |-> perfect_strokes]

\* calculate_character_score, lines 55-121, when it does not raise
calculate_character_score(scores, expected_stroke_count) ==
    IF scores = << >>
    THEN ScoreBreakdown(0, 1, 0, expected_stroke_count, 0, 0, 0)
    ELSE LET stroke_count == Len(scores)
             sum == SumSeq(scores)
             perfect == Cardinality({i \in 1..stroke_count : scores[i] >= 95})
             penalised == /\ expected_stroke_count # << >>
                          /\ stroke_count # expected_stroke_count[1]
             den == IF penalised THEN stroke_count * expected_stroke_count[1]
                    ELSE stroke_count
             num == IF penalised
                    THEN Max(0, sum * expected_stroke_count[1]
                                - StrokeCountPenalty(stroke_count, expected_stroke_count[1])
                                  * stroke_count)
                    ELSE sum
         IN  ScoreBreakdown(Max(0, Min(100 * den, num)), den, stroke_count,
                            expected_stroke_count, MinOf(scores),
                            MaxOf(scores), perfect)

CallCharacterScore(scores, expected) ==
    /\ pc = "idle"
    /\ IF CharacterScoreRaises(scores, expected)
       THEN /\ pc' = "raised"
            /\ unit' = Returned("calculate_character_score", <<scores, expected>>, << >>)
       ELSE /\ pc' = "returned"
            /\ unit' = Returned("calculate_character_score", <<scores, expected>>,
                                calculate_character_score(scores, expected))
    /\ UNCHANGED <<singleton, request, lookup, reference_data, order_result, stroke_scores,
                   stroke_analyses, dtw_calls, order_calls, posture_calls,
                   response, extracted>>

NextCharacterScore ==
    \E scores \in ScoreLists, expected \in ExpectedCounts :
        CallCharacterScore(scores, expected)

SpecCharacterScore == Init /\ [][NextCharacterScore]_vars

----------------------------------------------------------------------------
(* backend/app/scoring/posture_scorer.py, score_posture called on its own  *)
(* Metrics in tenths, scores and penalties in thousandths of a point.      *)

\* samples on, next to and between the thresholds, within the ranges that
\* PostureData accepts (models/posture.py:27-45)
SpineAngles  == {0, 99, 100, 120, 150, 199, 200, 250, 900}
EyeDistances == {0, 250, 251, 300, 349, 350, 400, 1000}
HeadTilts    == {0, 50, 149, 150, 225, 299, 300, 900}

PostureGrid ==
    [spine_angle : SpineAngles, eye_screen_distance : EyeDistances,
     head_tilt : HeadTilts]

CallScorePosture(posture_data) ==
    /\ pc = "idle"
    /\ pc' = "returned"
    /\ unit' = Returned("score_posture", <<posture_data>>, score_posture(posture_data))
    /\ posture_calls' = 1
    /\ UNCHANGED <<singleton, request, lookup, reference_data, order_result, stroke_scores,
                   stroke_analyses, dtw_calls, order_calls, response, extracted>>

NextPosture == \E posture_data \in PostureGrid : CallScorePosture(posture_data)

SpecPosture == Init /\ [][NextPosture]_vars

\* the deduction the metric earns: excess is how far the metric lies past
\* its warning threshold, span the distance from warning to critical
Deduction(excess, span, penalty_max) ==
    IF excess < 0 THEN 0
    ELSE IF excess < span THEN (excess * penalty_max) \div (2 * span)
    ELSE penalty_max

\* how far each metric of the sample lies past its warning threshold
SpineExcess == Args[1].spine_angle - SPINE_ANGLE_WARNING
EyeExcess == EYE_DISTANCE_WARNING - Args[1].eye_screen_distance
HeadExcess == Args[1].head_tilt - HEAD_TILT_WARNING

SpineSpan == SPINE_ANGLE_CRITICAL - SPINE_ANGLE_WARNING
EyeSpan == EYE_DISTANCE_WARNING - EYE_DISTANCE_CRITICAL
HeadSpan == HEAD_TILT_CRITICAL - HEAD_TILT_WARNING

\* C18: the score is 100 less, for each metric on its own, 0 on the good
\* side of the warning threshold, a linear ramp up to half the maximum
\* between warning and critical, and the maximum (30, 40, 30) at or beyond
\* critical; it lies in [0, 100].
C18_PostureDeductions ==
    Called("score_posture") =>
        /\ Result.score = 100000 - Deduction(SpineExcess, SpineSpan, 30000)
                                 - Deduction(EyeExcess, EyeSpan, 40000)
                                 - Deduction(HeadExcess, HeadSpan, 30000)
        /\ 0 <= Result.score /\ Result.score <= 100000

\* spine halfway up the ramp (7.5), eyes at the critical distance (40)
C18_Witness ==
    /\ Called("score_posture") /\ pc = "returned"
    /\ Args[1] = [spine_angle |-> 150, eye_screen_distance |-> 250, head_tilt |-> 50]
    /\ Result.score = 52500

\* C19: the level is critical iff some metric is at or beyond its critical
\* threshold, warning iff none is and some metric is at or beyond its
\* warning threshold, good otherwise; spine 25, eyes 40, tilt 5 is critical
\* with a score below 100.
C19_PostureLevel ==
    Called("score_posture") =>
        LET anyCritical == \/ SpineExcess >= SpineSpan
                           \/ EyeExcess >= EyeSpan
                           \/ HeadExcess >= HeadSpan
            anyWarning == SpineExcess >= 0 \/ EyeExcess >= 0 \/ HeadExcess >= 0
        IN  /\ Result.level = "critical" <=> anyCritical
            /\ Result.level = "warning" <=> (~anyCritical /\ anyWarning)
            /\ Result.level = "good" <=> (~anyCritical /\ ~anyWarning)
            /\ Args[1] = PostureCritical =>
                   Result.level = "critical" /\ Result.score < 100000

C19_Witness ==
    /\ Called("score_posture") /\ pc = "returned"
    /\ Args[1] = PostureCritical
    /\ Result.level = "critical" /\ Result.score = 70000

----------------------------------------------------------------------------
(* backend/app/scoring/validation.py and score_from_photo (scoring.py)     *)

\* validation.py:8-10; MIN_SPAN (0.05) in hundredths of the normalized extent
MIN_STROKE_POINTS == 2
MIN_TOTAL_POINTS == 8
MIN_SPAN == 5

\* a horizontal stroke of eight points, enough signal on its own
StrokeLong == << <<1, 1>>, <<2, 1>>, <<3, 1>>, <<4, 1>>,
                 <<5, 1>>, <<6, 1>>, <<7, 1>>, <<8, 1>> >>

\* strokes an extractor can return: _extract_user_strokes_from_photo drops
\* empty strokes (scoring.py:233-237)
PhotoStrokePool == TemplateStrokePool \cup {StrokeLong}

\* what _extract_user_strokes_from_photo returns: None, or a non-empty list
\* of non-empty strokes (scoring.py:203-242)
Extractions == Optional(SeqsUpTo(PhotoStrokePool, MaxStrokes) \ {<< >>})

\* posture_data of the form: absent or unparsable, or a parsed sample
PhotoPostures == Optional({PostureGood})

\* validation.py:24, the strokes with at least MIN_STROKE_POINTS points
RECURSIVE FilterStrokes(_)
FilterStrokes(strokes) ==
    IF strokes = << >> THEN << >>
    ELSE IF Len(Head(strokes)) >= MIN_STROKE_POINTS
         THEN <<Head(strokes)>> \o FilterStrokes(Tail(strokes))
         ELSE FilterStrokes(Tail(strokes))

\* validation.py:28, 32-33: one coordinate of every point of the strokes
Coordinates(strokes, axis) ==
    UNION {{strokes[i][j][axis] : j \in 1..Len(strokes[i])} : i \in 1..Len(strokes)}

\* validation.py:38-39, max - min in hundredths
Span(values) ==
    (CoordScale * (CHOOSE hi \in values : \A v \in values : v <= hi))
    - (CoordScale * (CHOOSE lo \in values : \A v \in values : lo <= v))

\* validate_extracted_strokes, lines 13-43: filtered strokes and the error,
\* << >> for None (every coordinate of the model is finite, line 35)
validate_extracted_strokes(strokes) ==
    LET filtered == FilterStrokes(strokes)
        total == SumSeq([i \in 1..Len(filtered) |-> Len(filtered[i])])
        rejected(message) == [filtered |-> << >>, error |-> <<message>>]
    IN  IF strokes = << >> THEN rejected("wei jian ce dao ke ping fen de shu xie gui ji")
        ELSE IF filtered = << >> THEN rejected("wei jian ce dao ke ping fen de shu xie gui ji")
        ELSE IF total < MIN_TOTAL_POINTS
        THEN rejected("wei jian ce dao ke ping fen de shu xie gui ji")
        ELSE IF /\ Span(Coordinates(filtered, 1)) < MIN_SPAN
                /\ Span(Coordinates(filtered, 2)) < MIN_SPAN
        THEN rejected("wei jian ce dao ke ping fen de shu xie gui ji (xuan zhuan / cai jian)")
        ELSE [filtered |-> filtered, error |-> << >>]

\* score_from_photo, scoring.py:246-280: the character check, the extractor,
\* the 422 for no strokes, and the call of comprehensive_score, whose own
\* input checks (lines 105-115) these requests pass
ScoreFromPhoto(character, extraction, parsed_posture) ==
    /\ pc = "idle"
    /\ IF character = << >> \/ Len(character) # 1
       THEN /\ response' = HttpError(400, "qing ti gong dan ge han zi")
            /\ pc' = "done"
            /\ UNCHANGED <<singleton, request, extracted>>
       ELSE IF extraction = << >>
       THEN /\ response' = HttpError(422, "no_strokes_detected")
            /\ pc' = "done"
            /\ UNCHANGED <<singleton, request, extracted>>
       ELSE /\ extracted' = extraction
            /\ request' = [character |-> character, user_strokes |-> extraction[1],
                           posture_data |-> parsed_posture]
            /\ response' = response
            /\ pc' = "load"
    /\ UNCHANGED <<singleton, lookup, reference_data, order_result, stroke_scores,
                   stroke_analyses, dtw_calls, order_calls, posture_calls, unit>>

NextPhoto ==
    \/ \E character \in Characters, extraction \in Extractions,
          parsed_posture \in PhotoPostures :
          ScoreFromPhoto(character, extraction, parsed_posture)
    \/ \E template \in Templates : LoadCharacterFound(template)
    \/ \E failure \in LoadFailures : LoadCharacterFails(failure)
    \/ ValidateOrder
    \/ Gate
    \/ ScoreStroke
    \/ Respond

SpecPhoto == Init /\ [][NextPhoto]_vars

\* the extraction passes the minimum-signal validation unchanged
PassesValidation(strokes) ==
    LET v == validate_extracted_strokes(strokes)
    IN  v.error = << >> /\ v.filtered = strokes

\* C20: strokes extracted from a photo reach scoring only when they pass the
\* minimum-signal validation (2 points a stroke, 8 points in all, a span of
\* 5%); an extraction that fails it is never validated for order, aligned
\* or answered with a score.
C20_ExtractionValidatedBeforeScoring ==
    (extracted # << >> /\ (order_calls > 0 \/ dtw_calls > 0 \/ ReturnedResult)) =>
        PassesValidation(extracted[1])

----------------------------------------------------------------------------
(* backend/app/models/inksight.py, InkSightModel (PaddleOCRModel,           *)
(* paddle_ocr.py:34-61, has the same __new__ and __init__).  Each thread    *)
(* runs InkSightModel.get_instance() and then load(), statement by          *)
(* statement; the interpreter may switch threads between two statements.    *)

\* constructor calls one thread makes
MaxConstructorCalls == 2

OtherVarsUnchanged ==
    UNCHANGED <<pc, request, lookup, reference_data, order_result, stroke_scores,
                stroke_analyses, dtw_calls, order_calls, posture_calls, response,
                extracted, unit>>

At(t, place) == singleton.at[t] = place

\* lines 76-79 and 61: get_instance() calls cls(); __new__ tests _instance
NewCheck(t) ==
    /\ At(t, "idle")
    /\ singleton.calls[t] < MaxConstructorCalls
    /\ singleton' = [singleton EXCEPT
           !.calls[t] = @ + 1,
           !.at[t] = IF singleton.instance = 0 THEN "lock_wait" ELSE "init_check",
           !.self[t] = singleton.instance]
    /\ OtherVarsUnchanged

\* line 62: with cls._lock
NewAcquire(t) ==
    /\ At(t, "lock_wait")
    /\ singleton.lock = "free"
    /\ singleton' = [singleton EXCEPT !.lock = t, !.at[t] = "locked"]
    /\ OtherVarsUnchanged

\* lines 63-65: the second test, the allocation, the release and the return
NewLocked(t) ==
    /\ At(t, "locked")
    /\ LET allocate == singleton.instance = 0
           object == IF allocate THEN singleton.created + 1 ELSE singleton.instance
       IN  singleton' = [singleton EXCEPT
               !.created = IF allocate THEN @ + 1 ELSE @,
               !.instance = object,
               !.lock = "free",
               !.self[t] = object,
               !.at[t] = "init_check"]
    /\ OtherVarsUnchanged

\* line 69: if not hasattr(self, '_initialized')
InitCheck(t) ==
    /\ At(t, "init_check")
    /\ singleton' = [singleton EXCEPT
           !.at[t] = IF singleton.initialized THEN "constructed" ELSE "init_model"]
    /\ OtherVarsUnchanged

\* line 70: self.model = None
InitModel(t) ==
    /\ At(t, "init_model")
    /\ singleton' = [singleton EXCEPT !.model = "None", !.at[t] = "init_loaded"]
    /\ OtherVarsUnchanged

\* line 71: self._is_loaded = False
InitLoaded(t) ==
    /\ At(t, "init_loaded")
    /\ singleton' = [singleton EXCEPT !.is_loaded = FALSE, !.at[t] = "init_flag"]
    /\ OtherVarsUnchanged

\* lines 72-73: self._initialized = True
InitFlag(t) ==
    /\ At(t, "init_flag")
    /\ singleton' = [singleton EXCEPT !.initialized = TRUE, !.at[t] = "constructed"]
    /\ OtherVarsUnchanged

\* is_loaded(), lines 81-83
is_loaded == singleton.is_loaded /\ singleton.model # "None" /\ singleton.model # "unset"

\* load(), lines 85-129 and 163-164, as scoring.py:217-218 calls it on the
\* instance it was given: nothing when loaded, else the model and the flag
Load(t) ==
    /\ At(t, "constructed")
    /\ singleton' = [singleton EXCEPT
           !.model = IF is_loaded THEN @ ELSE "MockModel",
           !.is_loaded = TRUE,
           !.loads = IF @ < 1 THEN @ + 1 ELSE @,
           !.at[t] = "loaded"]
    /\ OtherVarsUnchanged

\* the caller is done with the instance and may ask for it again
Release(t) ==
    /\ At(t, "loaded")
    /\ singleton.calls[t] < MaxConstructorCalls
    /\ singleton' = [singleton EXCEPT !.at[t] = "idle"]
    /\ OtherVarsUnchanged

NextSingleton ==
    \E t \in Threads :
        \/ NewCheck(t)
        \/ NewAcquire(t)
        \/ NewLocked(t)
        \/ InitCheck(t)
        \/ InitModel(t)
        \/ InitLoaded(t)
        \/ InitFlag(t)
        \/ Load(t)
        \/ Release(t)

SpecSingleton == Init /\ [][NextSingleton]_vars

\* the thread holds the instance its constructor call returned
Holds(t) == singleton.at[t] \in {"constructed", "loaded"}

\* C21: every caller obtains the same instance, and once load() has
\* returned for some caller no constructor call, later or concurrent,
\* resets the model or the loaded flag.
C21_SingletonInitialisedOnce ==
    /\ \A t1, t2 \in Threads :
           (Holds(t1) /\ Holds(t2)) => singleton.self[t1] = singleton.self[t2]
    /\ singleton.loads > 0 =>
           singleton.is_loaded /\ singleton.model = "MockModel"

----------------------------------------------------------------------------
(* Properties of the verdict on the count-match path (SpecValidate) *)

\* validate_stroke_order returned on the count-match path
MatchedVerdict ==
    /\ pc = "returned" /\ order_result # << >>
    /\ request.user_strokes # << >>
    /\ Len(request.user_strokes) = Len(reference_data)

\* the direction classes of the two strokes at index i
TemplateDirection(i) == detect_stroke_direction(reference_data[i])
UserDirection(i) == detect_stroke_direction(request.user_strokes[i])

\* C22 as stated: direction_match_rate is the share of indices at which the
\* template stroke and the user stroke get the same class, unknown being
\* one of the classes.  Two strokes that are both unknown are not counted.
C22_RateIsShareOfEqualClasses ==
    MatchedVerdict =>
        LET n == Len(reference_data)
            same == {i \in 1..n : TemplateDirection(i) = UserDirection(i)}
        IN  Verdict.direction_match_rate = (Cardinality(same) * Scale) \div n

\* C22, amended: direction_match_rate is the share of indices at which the
\* two strokes get the same class and that class is horizontal, vertical or
\* one of the two diagonals; a pair of unknown strokes counts as no match.
C22_RateIsShareOfEqualKnownClasses ==
    MatchedVerdict =>
        LET n == Len(reference_data)
            same == {i \in 1..n : /\ TemplateDirection(i) = UserDirection(i)
                                  /\ TemplateDirection(i) # "unknown"}
        IN  Verdict.direction_match_rate = (Cardinality(same) * Scale) \div n

\* a horizontal pair that matches and a pair of single points that does not
C22_Witness ==
    /\ MatchedVerdict
    /\ Len(reference_data) = 2
    /\ TemplateDirection(1) = "horizontal" /\ UserDirection(1) = "horizontal"
    /\ TemplateDirection(2) = "unknown" /\ UserDirection(2) = "unknown"
    /\ Verdict.direction_match_rate = 5000

\* the similarity matrix of the call that returned
SimilarityMatrix == calculate_similarity_matrix(reference_data, request.user_strokes)

\* user stroke i is among the user strokes most similar to template stroke i
AmongBest(i) ==
    \A k \in 1..Len(request.user_strokes) :
        SimilarityMatrix[i][k] <= SimilarityMatrix[i][i]

\* C23: order_penalty is 0.3/N for each template index whose best-matching
\* user stroke is not user stroke i, and an index at which user stroke i
\* ties with other user strokes for the highest similarity adds nothing.
C23_PenaltyCountsIndicesNotAmongBest ==
    MatchedVerdict =>
        LET n == Len(reference_data)
            misplaced == {i \in 1..n : ~AmongBest(i)}
        IN  Verdict.order_penalty = (OrderPenaltyFactor * Cardinality(misplaced)) \div n

\* the mean of the diagonal of the similarity matrix
DiagonalMean ==
    SumSeq([i \in 1..Len(reference_data) |-> SimilarityMatrix[i][i]])
        \div Len(reference_data)

\* C24: the verdict score is a * (1 - order_penalty), plus a tenth of
\* direction_match_rate when that rate is above 0.5, kept within [0, 1],
\* where a is the mean of the matrix diagonal, halved when it is below 0.6.
C24_VerdictScoreFormula ==
    MatchedVerdict =>
        LET a == IF DiagonalMean < 6000 THEN DiagonalMean \div 2 ELSE DiagonalMean
            penalised == (a * (Scale - Verdict.order_penalty)) \div Scale
            boosted == penalised + Verdict.direction_match_rate \div 10
        IN  /\ Verdict.score =
                   IF Verdict.direction_match_rate > 5000
                   THEN Min(Scale, Max(0, boosted))
                   ELSE Min(Scale, Max(0, penalised))
            /\ Verdict.score \in 0..Scale

\* a verdict with an order penalty that received the boost without
\* reaching the clamp
C24_Witness ==
    /\ MatchedVerdict
    /\ Verdict.direction_match_rate > 5000
    /\ Verdict.order_penalty > 0
    /\ Verdict.score > (DiagonalMean * (Scale - Verdict.order_penalty)) \div Scale
    /\ Verdict.score < Scale

----------------------------------------------------------------------------
(* Properties of per-stroke scoring (Spec) *)

\* the request passed the gate and i of its strokes have been scored
Scored(i) ==
    /\ pc \in {"score", "done"}
    /\ order_result # << >>
    /\ order_result[1].is_valid /\ order_result[1].stroke_count_match
    /\ i \in 1..Len(stroke_scores)

\* the two sequences passed to calculate_dtw_distance for stroke i: the user
\* stroke as received and the points of the reference median (lines 306-311)
AlignedPair(i) == <<request.user_strokes[i], reference_data[i]>>

\* C25: on the non-gated path each user stroke and its template stroke are
\* brought to a common number of points before they are aligned, so every
\* per-stroke alignment compares two sequences of equal length.
C25_AlignedPairsHaveEqualLength ==
    \A i \in 1..MaxStrokes :
        Scored(i) => Len(AlignedPair(i)[1]) = Len(AlignedPair(i)[2])

----------------------------------------------------------------------------
(* backend/app/scoring/stroke_order.py: detect_stroke_direction alone *)

\* the points of the strokes classified: the corners of the writing area
\* and a point on the top edge
DirectionPointPool == PointPool \cup {<<9, 9>>, <<4, 1>>}
DirectionStrokes == SeqsUpTo(DirectionPointPool, MaxPoints)

CallDetectStrokeDirection(stroke) ==
    /\ pc = "idle"
    /\ pc' = "returned"
    /\ unit' = Returned("detect_stroke_direction", <<stroke>>,
                        detect_stroke_direction(stroke))
    /\ UNCHANGED <<singleton, request, lookup, reference_data, order_result, stroke_scores,
                   stroke_analyses, dtw_calls, order_calls, posture_calls,
                   response, extracted>>

NextDirection ==
    \E stroke \in DirectionStrokes : CallDetectStrokeDirection(stroke)

SpecDirection == Init /\ [][NextDirection]_vars

----------------------------------------------------------------------------
(* Properties of the posture analysis as a whole (SpecPosture) *)

\* score_posture returned an analysis
Analysed == Called("score_posture") /\ pc = "returned"

\* _generate_feedback, line 259
FeedbackPraise == <<"zuo zi biao zhun, ji xu bao chi">>

C28_PraiseOnlyWhenCorrect ==
    Analysed =>
        (Result.feedback = FeedbackPraise =>
            Result.is_correct /\ Result.level \notin {"warning", "critical"})

----------------------------------------------------------------------------
(* Bounds of the order penalty (SpecValidate) *)

\* line 184: the user stroke the loop takes as the best match of template i
BestMatch(i) == ArgMax(SimilarityMatrix[i])

----------------------------------------------------------------------------
(* Shape of the stroke analyses of a scored request (Spec) *)

\* a 200 result of a request that passed the gate
NonGatedResult ==
    /\ ReturnedResult
    /\ order_result # << >>
    /\ Verdict.is_valid /\ Verdict.stroke_count_match

\* lines 342-350: the analysis of a stroke beyond the reference
IsExtraStroke(analysis) == analysis.issues = <<"duo yu de bi hua">>

\* C30: a non-gated result has one stroke analysis per template stroke, with
\* stroke_index 0..N-1 in order, and none of them is the analysis of an
\* extra stroke.
C30_OneAnalysisPerTemplateStroke ==
    NonGatedResult =>
        /\ Len(Body.stroke_analysis) = Len(reference_data)
        /\ \A i \in 1..Len(Body.stroke_analysis) :
               /\ Body.stroke_analysis[i].stroke_index = i - 1
               /\ ~IsExtraStroke(Body.stroke_analysis[i])

\* a scored request of two strokes
C30_Witness ==
    /\ NonGatedResult
    /\ Len(reference_data) = 2
    /\ Len(Body.stroke_analysis) = 2
    /\ Body.stroke_analysis[2].stroke_index = 1

====
